---- MODULE Spec2Model ----
(***************************************************************************)
(* The redo log manager of cdc/redo/manager.go: construction (NewManager), *)
(* the table registry (AddTable / RemoveTable under rtsMapMu), the         *)
(* background loop (run / updateTableResolvedTs), the atomic published     *)
(* minimum (GetMinResolvedTs) and the operations that forward to the redo  *)
(* log writer.  The writer is an interface whose implementations are not   *)
(* part of manager.go: what it returns is an input of the model.           *)
(*                                                                         *)
(* Beside it, the two components of which the repository holds the tests   *)
(* only: the table actor of cdc/processor/pipeline (actor_test.go) and the *)
(* MySQL sink parameters of cdc/sink (mysql_params_test.go).  They are     *)
(* modelled from their specification and from what the tests do.           *)
(***************************************************************************)
EXTENDS Integers, Sequences, FiniteSets, TLC

\* ---------------------------------------------------------------- bounds
\* table ids are 1..MaxTableID, timestamps are 0..MaxTs
MaxTableID == 3
MaxTs == 1
\* an actor mailbox holds MailboxCap messages, barriers are 1..MaxBarrierTs
MailboxCap == 3
MaxBarrierTs == 3
\* a sink URI carries at most MaxQueryKeys query keys; at most MaxObjects
\* sinkParams objects are allocated
MaxQueryKeys == 3
MaxObjects == 3

TableIDs == 1..MaxTableID
Ts == 0..MaxTs

\* math.MaxUint64 (manager.go:252).  The model's integers are narrower than
\* 64 bits; the code only compares against this value ("rts < minResolvedTs"),
\* so it is modelled by the largest representable integer, above every Ts.
MaxUint64 == 2147483647

\* ------------------------------------------------------------ constants
consistentLevelNormal == "normal"
consistentLevelEventual == "eventual"
consistentStorageLocal == "local"
consistentStorageS3 == "s3"
consistentStorageBlackhole == "blackhole"

\* the error values of the model; "nil" is the nil error
ErrNil == "nil"
ErrInvalidS3URI == "ErrInvalidS3URI"
ErrConsistentStorage == "ErrConsistentStorage"
ErrWriterIO == "ErrWriterIO"
ErrCanceled == "context canceled"

VARIABLES
    cfg,            \* the *config.ConsistentConfig handed to NewManager
    opts,           \* the *ManagerOptions handed to NewManager
    newErr,         \* the error NewManager returned ("nil": a manager exists)
    enabled,        \* ManagerImpl.enabled
    level,          \* ManagerImpl.level
    storage,        \* ManagerImpl.storage
    writer,         \* ManagerImpl.writer: "nil", "blackhole" or "logwriter"
    rtsMapNil,      \* TRUE iff ManagerImpl.rtsMap is the nil map
    minResolvedTs,  \* ManagerImpl.minResolvedTs (atomic word)
    tableIDs,       \* ManagerImpl.tableIDs (slice, as a sequence)
    rtsMap,         \* ManagerImpl.rtsMap (a function on its key set)
    rtsMapMu,       \* ManagerImpl.rtsMapMu: "free" or the holder of the write lock
                    \* ("run" or a calling goroutine)
    callerPc,       \* per calling goroutine: "idle", or inside "AddTable"/"RemoveTable"
    callerArg,      \* per calling goroutine: the arguments of the call it is inside
    bgPc,           \* position of the goroutine running ManagerImpl.run
    bgErr,          \* the err variable of run
    errCh,          \* the errors delivered on opts.ErrCh, in order
    wReq,           \* the tableIDs handed to the GetCurrentResolvedTs call in flight
    ctxDone,        \* TRUE once ctx is cancelled
    last,           \* the last call that returned a value: its writer calls and result
    published,      \* TRUE once atomic.StoreUint64(&m.minResolvedTs, ..) has run
    emptyResp,      \* TRUE iff the last successful update got an empty map from the writer
    panicked,       \* TRUE once a goroutine has panicked (the process is gone)
    spawned,        \* TRUE once NewTableActor has built the actor of table 1
    router,         \* the actor ids registered in the router
    mailbox,        \* the mailbox of the table actor
    stopped,        \* tableActor.stopped
    barrierTs,      \* the barrier ts of the table actor
    closed,         \* the stages of the actor that were closed, in order
    sendResult,     \* what the last router Send returned
    heap,           \* the sinkParams objects allocated so far, by address
    ptr,            \* the variables of the caller that point at sinkParams objects
    mut,            \* per variable: the fields the caller assigned through it
    sinkURI,        \* the URI handed to the last parseSinkURIToParams
    parsed,         \* what the last parseSinkURIToParams returned
    dsn             \* what the last generateDSNByParams returned

confVars == <<cfg, opts, newErr, enabled, level, storage, writer, rtsMapNil>>
tableVars == <<tableIDs, rtsMap>>
bgVars == <<bgPc, bgErr, errCh, wReq>>
actorVars == <<spawned, router, mailbox, stopped, barrierTs, closed, sendResult>>
sinkVars == <<heap, ptr, mut, sinkURI, parsed, dsn>>
redoVars == <<cfg, opts, newErr, enabled, level, storage, writer, rtsMapNil,
              minResolvedTs, tableIDs, rtsMap, rtsMapMu, callerPc, callerArg,
              bgPc, bgErr, errCh, wReq, ctxDone, last, published, emptyResp, panicked>>
vars == <<cfg, opts, newErr, enabled, level, storage, writer, rtsMapNil,
          minResolvedTs, tableIDs, rtsMap, rtsMapMu, callerPc, callerArg,
          bgPc, bgErr, errCh, wReq, ctxDone, last, published, emptyResp, panicked,
          spawned, router, mailbox, stopped, barrierTs, closed, sendResult,
          heap, ptr, mut, sinkURI, parsed, dsn>>

\* the goroutines that call AddTable and RemoveTable
Callers == {"c1", "c2"}

\* --------------------------------------------------------- construction
Levels == {consistentLevelNormal, consistentLevelEventual, "bogus"}
Storages == {consistentStorageLocal, consistentStorageS3,
             consistentStorageBlackhole, "bogus"}
S3URIs == {"", "s3://bucket/redo", "%zz"}

\* url.Parse(cfg.S3URI) fails on an invalid escape
UrlParseFails(uri) == uri = "%zz"

\* the configurations NewManager is given: no config at all, or a config
\* whose S3URI is set only for the s3 storage
Cfgs ==
    {[isNil |-> TRUE, Level |-> "", Storage |-> "", S3URI |-> ""]} \cup
    {c \in [isNil : {FALSE}, Level : Levels, Storage : Storages, S3URI : S3URIs] :
        (c.S3URI # "") <=> (c.Storage = consistentStorageS3)}

Opts == [EnableBgRunner : BOOLEAN]

IsValidConsistentLevel(l) ==
    IF l \in {consistentLevelNormal, consistentLevelEventual} THEN TRUE ELSE FALSE

IsValidConsistentStorage(s) ==
    IF s \in {consistentStorageLocal, consistentStorageS3, consistentStorageBlackhole}
    THEN TRUE ELSE FALSE

\* the ManagerImpl NewManager returns beside a nil error
ManagerOf(en, lv, st, wr, nilMap, bg) ==
    [err |-> ErrNil, enabled |-> en, level |-> lv, storage |-> st,
     writer |-> wr, rtsMapNil |-> nilMap, bg |-> bg]

\* NewManager's result is (nil, err): no manager, no goroutine
NoManager(e) ==
    [err |-> e, enabled |-> FALSE, level |-> "", storage |-> "",
     writer |-> "nil", rtsMapNil |-> TRUE, bg |-> FALSE]

NewManager(c, o) ==
    IF c.isNil \/ c.Level = consistentLevelNormal
    THEN ManagerOf(FALSE, "", "", "nil", TRUE, FALSE)
    ELSE IF c.Storage = consistentStorageBlackhole
         THEN ManagerOf(TRUE, c.Level, c.Storage, "blackhole", FALSE, o.EnableBgRunner)
         ELSE IF c.Storage \in {consistentStorageLocal, consistentStorageS3}
              THEN IF c.Storage = consistentStorageS3 /\ UrlParseFails(c.S3URI)
                   THEN NoManager(ErrInvalidS3URI)
                   ELSE ManagerOf(TRUE, c.Level, c.Storage, "logwriter", FALSE,
                                  o.EnableBgRunner)
              ELSE NoManager(ErrConsistentStorage)

\* ------------------------------------------------------- sink parameters
\* the default instance every construction clones
DefaultWorkerCount == 16
DefaultMaxTxnRow == 256
defaultBatchReplaceSize == 20
defaultTiDBTxnMode == "optimistic"
defaultReadTimeout == "2m"
defaultWriteTimeout == "2m"
defaultDialTimeout == "2s"

DefaultParams ==
    [workerCount |-> DefaultWorkerCount, maxTxnRow |-> DefaultMaxTxnRow,
     tidbTxnMode |-> defaultTiDBTxnMode, changefeedID |-> "", captureAddr |-> "",
     batchReplaceEnabled |-> TRUE, batchReplaceSize |-> defaultBatchReplaceSize,
     readTimeout |-> defaultReadTimeout, writeTimeout |-> defaultWriteTimeout,
     dialTimeout |-> defaultDialTimeout, safeMode |-> FALSE,
     timezone |-> <<>>, tls |-> ""]

\* Clone with a shallow hand-over: the destination points at the source object
CloneOf_Alias(objs, a) == [objs |-> objs, addr |-> a]

\* params.Clone(): a new object with every field copied
CloneOf(objs, a) ==
    [objs |-> Append(objs, [f \in DOMAIN objs[a] |-> objs[a][f]]),
     addr |-> Len(objs) + 1]

\* the variables of a caller that hold *sinkParams ("nil" is address 0)
ParamVars == {"defaultParams", "param1", "param2"}

\* the assignments a caller makes through a clone
FieldValues ==
    ("changefeedID" :> {"", "123"}) @@ ("batchReplaceEnabled" :> {TRUE, FALSE})
    @@ ("maxTxnRow" :> {DefaultMaxTxnRow, 1})

\* strconv.Atoi on the query values in use
AtoiTable == ("1" :> 1) @@ ("20" :> 20) @@ ("50" :> 50) @@ ("64" :> 64)

Atoi(v) ==
    IF v \in DOMAIN AtoiTable THEN [err |-> FALSE, n |-> AtoiTable[v]]
    ELSE [err |-> TRUE, n |-> 0]

\* strconv.ParseBool on the query values in use
ParseBoolTable == ("true" :> TRUE) @@ ("false" :> FALSE) @@ ("1" :> TRUE) @@ ("0" :> FALSE)

ParseBool(v) ==
    IF v \in DOMAIN ParseBoolTable THEN [err |-> FALSE, b |-> ParseBoolTable[v]]
    ELSE [err |-> TRUE, b |-> FALSE]

\* a time zone name as the sequence of its pieces ("/" and '"' are escaped in a URL)
Tokens ==
    ("" :> <<>>) @@ ("UTC" :> <<"UTC">>) @@ ("Asia/Shanghai" :> <<"Asia", "/", "Shanghai">>)

\* fmt.Sprintf(`"%s"`, tz)
Quote(tz) == <<"\"">> \o tz \o <<"\"">>

\* url.QueryEscape, piece by piece
EscapeTable == ("\"" :> "%22") @@ ("/" :> "%2F")

\* an escape that leaves every piece as it is
QueryEscape_Identity(s) == [i \in DOMAIN s |-> s[i]]

QueryEscape(s) ==
    [i \in DOMAIN s |-> IF s[i] \in DOMAIN EscapeTable THEN EscapeTable[s[i]] ELSE s[i]]

\* the URI schemes in use; only mysql and tidb are accepted
Schemes == {"mysql", "tidb", "postgre"}

SslKeys == {"ssl-ca", "ssl-cert", "ssl-key"}

\* the recognized query keys and the values a URI gives them
QueryValues ==
    ("worker-count" :> {"64", "not-number"})
    @@ ("max-txn-row" :> {"20", "not-number"})
    @@ ("tidb-txn-mode" :> {"optimistic", "pessimistic"})
    @@ ("batch-replace-enable" :> {"true", "false", "not-bool"})
    @@ ("batch-replace-size" :> {"50", "not-number"})
    @@ ("safe-mode" :> {"true", "not-bool"})
    @@ ("read-timeout" :> {"4m"})
    @@ ("write-timeout" :> {"5m"})
    @@ ("timeout" :> {"3m"})
    @@ ("time-zone" :> {"", "Asia/Shanghai"})
    @@ ("ssl-ca" :> {"ca.pem"})
    @@ ("ssl-cert" :> {"cert.pem"})
    @@ ("ssl-key" :> {"key.pem"})

QueryKeys == DOMAIN QueryValues

RECURSIVE QueriesOver(_)
QueriesOver(d) ==
    IF d = {} THEN {<<>>}
    ELSE LET k == CHOOSE x \in d : TRUE
         IN {q @@ (k :> v) : q \in QueriesOver(d \ {k}), v \in QueryValues[k]}

\* the URIs handed to parseSinkURIToParams: nil, or a scheme and a query
SinkURIs ==
    {[isNil |-> TRUE, scheme |-> "", query |-> <<>>]}
    \cup {[isNil |-> FALSE, scheme |-> s, query |-> q] :
            s \in Schemes,
            q \in UNION {QueriesOver(d) :
                           d \in {e \in SUBSET QueryKeys : Cardinality(e) <= MaxQueryKeys}}}

\* the options map: changefeed id and capture address
SinkOpts ==
    {[changefeedID |-> "", captureAddr |-> ""],
     [changefeedID |-> "cf-id", captureAddr |-> "127.0.0.1:8300"]}

ErrInvalidConfig == "ErrInvalidConfig"
ErrConnDone == "sql: connection is already closed"

\* the nil *sinkParams
NilParams == [nil |-> TRUE]

ParseFail == [err |-> ErrInvalidConfig, params |-> NilParams]

NotParsed == [err |-> "unset", params |-> NilParams]

\* the query value of key k, or dflt when the key is absent
Get(q, k, dflt) == IF k \in DOMAIN q THEN q[k] ELSE dflt

\* parseSinkURIToParams accepting a partial TLS triple
ParseSinkURIToParamsResult_PartialTLS(u, o) ==
    IF u.isNil \/ u.scheme \notin {"mysql", "tidb"} THEN ParseFail
    ELSE LET q == u.query
             wc == Atoi(Get(q, "worker-count", "1"))
             mr == Atoi(Get(q, "max-txn-row", "1"))
             bs == Atoi(Get(q, "batch-replace-size", "1"))
             be == ParseBool(Get(q, "batch-replace-enable", "true"))
             sm == ParseBool(Get(q, "safe-mode", "false"))
         IN IF wc.err \/ mr.err \/ bs.err \/ be.err \/ sm.err
            THEN ParseFail
            ELSE [err |-> ErrNil,
                  params |->
                    [workerCount |-> IF "worker-count" \in DOMAIN q THEN wc.n
                                     ELSE DefaultParams.workerCount,
                     maxTxnRow |-> IF "max-txn-row" \in DOMAIN q THEN mr.n
                                   ELSE DefaultParams.maxTxnRow,
                     tidbTxnMode |-> Get(q, "tidb-txn-mode", DefaultParams.tidbTxnMode),
                     changefeedID |-> o.changefeedID,
                     captureAddr |-> o.captureAddr,
                     batchReplaceEnabled |-> IF "batch-replace-enable" \in DOMAIN q THEN be.b
                                             ELSE DefaultParams.batchReplaceEnabled,
                     batchReplaceSize |-> IF "batch-replace-size" \in DOMAIN q THEN bs.n
                                          ELSE DefaultParams.batchReplaceSize,
                     readTimeout |-> Get(q, "read-timeout", DefaultParams.readTimeout),
                     writeTimeout |-> Get(q, "write-timeout", DefaultParams.writeTimeout),
                     dialTimeout |-> Get(q, "timeout", DefaultParams.dialTimeout),
                     safeMode |-> IF "safe-mode" \in DOMAIN q THEN sm.b
                                  ELSE DefaultParams.safeMode,
                     timezone |-> IF "time-zone" \notin DOMAIN q THEN Quote(Tokens["UTC"])
                                  ELSE IF q["time-zone"] = "" THEN <<>>
                                  ELSE Quote(Tokens[q["time-zone"]]),
                     tls |-> IF SslKeys \cap DOMAIN q # {} THEN "tls" ELSE ""]]

\* parseSinkURIToParams: the defaults, overridden by the query and the options
ParseSinkURIToParamsResult(u, o) ==
    IF u.isNil \/ u.scheme \notin {"mysql", "tidb"} THEN ParseFail
    ELSE LET q == u.query
             wc == Atoi(Get(q, "worker-count", "1"))
             mr == Atoi(Get(q, "max-txn-row", "1"))
             bs == Atoi(Get(q, "batch-replace-size", "1"))
             be == ParseBool(Get(q, "batch-replace-enable", "true"))
             sm == ParseBool(Get(q, "safe-mode", "false"))
             ssl == SslKeys \cap DOMAIN q
         IN IF wc.err \/ mr.err \/ bs.err \/ be.err \/ sm.err \/ ssl \notin {{}, SslKeys}
            THEN ParseFail
            ELSE [err |-> ErrNil,
                  params |->
                    [workerCount |-> IF "worker-count" \in DOMAIN q THEN wc.n
                                     ELSE DefaultParams.workerCount,
                     maxTxnRow |-> IF "max-txn-row" \in DOMAIN q THEN mr.n
                                   ELSE DefaultParams.maxTxnRow,
                     tidbTxnMode |-> Get(q, "tidb-txn-mode", DefaultParams.tidbTxnMode),
                     changefeedID |-> o.changefeedID,
                     captureAddr |-> o.captureAddr,
                     batchReplaceEnabled |-> IF "batch-replace-enable" \in DOMAIN q THEN be.b
                                             ELSE DefaultParams.batchReplaceEnabled,
                     batchReplaceSize |-> IF "batch-replace-size" \in DOMAIN q THEN bs.n
                                          ELSE DefaultParams.batchReplaceSize,
                     readTimeout |-> Get(q, "read-timeout", DefaultParams.readTimeout),
                     writeTimeout |-> Get(q, "write-timeout", DefaultParams.writeTimeout),
                     dialTimeout |-> Get(q, "timeout", DefaultParams.dialTimeout),
                     safeMode |-> IF "safe-mode" \in DOMAIN q THEN sm.b
                                  ELSE DefaultParams.safeMode,
                     timezone |-> IF "time-zone" \notin DOMAIN q THEN Quote(Tokens["UTC"])
                                  ELSE IF q["time-zone"] = "" THEN <<>>
                                  ELSE Quote(Tokens[q["time-zone"]]),
                     tls |-> IF ssl = SslKeys THEN "tls" ELSE ""]]

\* what the probe `show session variables like ...` finds
Probes == {"row", "no rows", ErrConnDone}

NoDSN == <<>>

NoDSNYet == [err |-> "unset", kv |-> NoDSN]

\* generateDSNByParams setting allow_auto_random_explicit_insert only when
\* the probe finds the variable
GenerateDSNByParamsResult_ProbeDecides(u, p, probe) ==
    IF probe = ErrConnDone THEN [err |-> ErrConnDone, kv |-> NoDSN]
    ELSE [err |-> ErrNil,
          kv |-> ("tidb_txn_mode" :> p.tidbTxnMode)
                 @@ ("readTimeout" :> p.readTimeout)
                 @@ ("writeTimeout" :> p.writeTimeout)
                 @@ (IF probe = "row"
                     THEN ("allow_auto_random_explicit_insert" :> "1") ELSE <<>>)
                 @@ (IF p.timezone # <<>>
                     THEN ("time_zone" :> QueryEscape(p.timezone)) ELSE <<>>)
                 @@ (IF "timeout" \in DOMAIN u.query
                     THEN ("timeout" :> p.dialTimeout) ELSE <<>>)]

\* generateDSNByParams: the DSN parameters, as key -> escaped value
GenerateDSNByParamsResult(u, p, probe) ==
    IF probe = ErrConnDone THEN [err |-> ErrConnDone, kv |-> NoDSN]
    ELSE [err |-> ErrNil,
          kv |-> ("tidb_txn_mode" :> p.tidbTxnMode)
                 @@ ("readTimeout" :> p.readTimeout)
                 @@ ("writeTimeout" :> p.writeTimeout)
                 @@ ("allow_auto_random_explicit_insert" :> "1")
                 @@ (IF p.timezone # <<>>
                     THEN ("time_zone" :> QueryEscape(p.timezone)) ELSE <<>>)
                 @@ (IF "timeout" \in DOMAIN u.query
                     THEN ("timeout" :> p.dialTimeout) ELSE <<>>)]

NoCall == [op |-> "none", calls |-> <<>>, ret |-> ErrNil, val |-> 0]
NoArg == [tableID |-> 0, startTs |-> 0]

Init ==
    \E c \in Cfgs, o \in Opts :
        LET m == NewManager(c, o) IN
        /\ cfg = c
        /\ opts = o
        /\ newErr = m.err
        /\ enabled = m.enabled
        /\ level = m.level
        /\ storage = m.storage
        /\ writer = m.writer
        /\ rtsMapNil = m.rtsMapNil
        /\ minResolvedTs = 0
        /\ tableIDs = <<>>
        /\ rtsMap = <<>>
        /\ rtsMapMu = "free"
        /\ callerPc = [g \in Callers |-> "idle"]
        /\ callerArg = [g \in Callers |-> NoArg]
        /\ bgPc = IF m.bg THEN "select" ELSE "none"
        /\ bgErr = ErrNil
        /\ errCh = <<>>
        /\ wReq = <<>>
        /\ ctxDone = FALSE
        /\ last = NoCall
        /\ published = FALSE
        /\ emptyResp = FALSE
        /\ panicked = FALSE
        /\ spawned = FALSE
        /\ router = {}
        /\ mailbox = <<>>
        /\ stopped = FALSE
        /\ barrierTs = 0
        /\ closed = <<>>
        /\ sendResult = "none"
        /\ heap = <<DefaultParams>>
        /\ ptr = [v \in ParamVars |-> IF v = "defaultParams" THEN 1 ELSE 0]
        /\ mut = [v \in ParamVars |-> {}]
        /\ sinkURI = [isNil |-> TRUE, scheme |-> "", query |-> <<>>]
        /\ parsed = NotParsed
        /\ dsn = NoDSNYet

\* a method can be called: NewManager returned a manager and the process lives
Alive == newErr = ErrNil /\ ~panicked

\* ------------------------------------------------------- table registry
\* sort.Search(n, f) with f(i) = s[i] >= t: binary search on [i, j), 0-based
RECURSIVE SortSearch(_, _, _, _)
SortSearch(s, t, i, j) ==
    IF i < j
    THEN LET h == (i + j) \div 2 IN
         IF ~(s[h + 1] >= t) THEN SortSearch(s, t, h + 1, j)
                             ELSE SortSearch(s, t, i, h)
    ELSE i

\* AddTableIDs with the insertion at the search position lost: always appends
AddTableIDs_AlwaysAppend(s, t) ==
    LET i == SortSearch(s, t, 0, Len(s)) IN
    IF i < Len(s) /\ s[i + 1] = t THEN s ELSE Append(s, t)

\* the slice AddTable leaves in m.tableIDs (i is the 0-based search result)
AddTableIDs(s, t) ==
    LET i == SortSearch(s, t, 0, Len(s)) IN
    IF i < Len(s) /\ s[i + 1] = t
    THEN s
    ELSE IF i = Len(s)
         THEN Append(s, t)
         ELSE [(SubSeq(s, 1, i + 1) \o SubSeq(s, i + 1, Len(s))) EXCEPT ![i + 1] = t]

\* AddTable returns early on a duplicate
AddTableIsDup(s, t) ==
    LET i == SortSearch(s, t, 0, Len(s)) IN i < Len(s) /\ s[i + 1] = t

\* m.rtsMap[k] = v
MapSet(m, k, v) == [x \in (DOMAIN m) \cup {k} |-> IF x = k THEN v ELSE m[x]]

\* delete(m.rtsMap, k)
MapDelete(m, k) == [x \in (DOMAIN m) \ {k} |-> m[x]]

\* RemoveTable found the table
RemoveTableFound(s, t) ==
    LET i == SortSearch(s, t, 0, Len(s)) IN i < Len(s) /\ s[i + 1] = t

\* RemoveTableIDs without the copy: the slice is only cut by one
RemoveTableIDs_NoCopy(s, t) ==
    LET i == SortSearch(s, t, 0, Len(s)) IN
    IF i < Len(s) /\ s[i + 1] = t THEN SubSeq(s, 1, Len(s) - 1) ELSE s

\* copy(s[i:], s[i+1:]) then s[:len(s)-1]
RemoveTableIDs(s, t) ==
    LET i == SortSearch(s, t, 0, Len(s)) IN
    IF i < Len(s) /\ s[i + 1] = t
    THEN LET copied == SubSeq(s, 1, i) \o SubSeq(s, i + 2, Len(s)) \o <<s[Len(s)]>>
         IN SubSeq(copied, 1, Len(s) - 1)
    ELSE s

\* AddTable: m.rtsMapMu.Lock()
AddTableLock(c, t, s) ==
    /\ Alive
    /\ callerPc[c] = "idle"
    /\ rtsMapMu = "free"
    /\ rtsMapMu' = c
    /\ callerPc' = [callerPc EXCEPT ![c] = "AddTable"]
    /\ callerArg' = [callerArg EXCEPT ![c] = [tableID |-> t, startTs |-> s]]
    /\ UNCHANGED <<sinkVars, actorVars, confVars, minResolvedTs, tableVars, bgVars, ctxDone, last,
                   published, emptyResp, panicked>>

\* AddTable publishing the startTs of a new table when it is below the minimum
AddTable_PublishesStartTs(c) ==
    /\ Alive
    /\ callerPc[c] = "AddTable"
    /\ LET t == callerArg[c].tableID
           s == callerArg[c].startTs
       IN IF AddTableIsDup(tableIDs, t)
          THEN UNCHANGED <<tableIDs, rtsMap, panicked, minResolvedTs>>
          ELSE /\ tableIDs' = AddTableIDs(tableIDs, t)
               /\ minResolvedTs' = IF s < minResolvedTs THEN s ELSE minResolvedTs
               /\ IF rtsMapNil
                  THEN panicked' = TRUE /\ UNCHANGED rtsMap
                  ELSE rtsMap' = MapSet(rtsMap, t, s) /\ UNCHANGED panicked
    /\ rtsMapMu' = "free"
    /\ callerPc' = [callerPc EXCEPT ![c] = "idle"]
    /\ callerArg' = [callerArg EXCEPT ![c] = NoArg]
    /\ UNCHANGED <<sinkVars, actorVars, confVars, bgVars, ctxDone, last, published, emptyResp>>

\* AddTable without the early return on a duplicate: rtsMap[t] is reset
AddTable_ResetDuplicate(c) ==
    /\ Alive
    /\ callerPc[c] = "AddTable"
    /\ LET t == callerArg[c].tableID
           s == callerArg[c].startTs
       IN /\ tableIDs' = AddTableIDs(tableIDs, t)
          /\ IF rtsMapNil
             THEN panicked' = TRUE /\ UNCHANGED rtsMap
             ELSE rtsMap' = MapSet(rtsMap, t, s) /\ UNCHANGED panicked
    /\ rtsMapMu' = "free"
    /\ callerPc' = [callerPc EXCEPT ![c] = "idle"]
    /\ callerArg' = [callerArg EXCEPT ![c] = NoArg]
    /\ UNCHANGED <<sinkVars, actorVars, confVars, minResolvedTs, bgVars, ctxDone, last, published, emptyResp>>

\* AddTable: the body under the lock and the deferred Unlock.  Writing to the
\* nil rtsMap of a disabled manager panics after m.tableIDs was assigned.
AddTable(c) ==
    /\ Alive
    /\ callerPc[c] = "AddTable"
    /\ LET t == callerArg[c].tableID
           s == callerArg[c].startTs
       IN IF AddTableIsDup(tableIDs, t)
          THEN UNCHANGED <<tableIDs, rtsMap, panicked>>
          ELSE /\ tableIDs' = AddTableIDs(tableIDs, t)
               /\ IF rtsMapNil
                  THEN panicked' = TRUE /\ UNCHANGED rtsMap
                  ELSE rtsMap' = MapSet(rtsMap, t, s) /\ UNCHANGED panicked
    /\ rtsMapMu' = "free"
    /\ callerPc' = [callerPc EXCEPT ![c] = "idle"]
    /\ callerArg' = [callerArg EXCEPT ![c] = NoArg]
    /\ UNCHANGED <<sinkVars, actorVars, confVars, minResolvedTs, bgVars, ctxDone, last, published, emptyResp>>

\* RemoveTable: m.rtsMapMu.Lock()
RemoveTableLock(c, t) ==
    /\ Alive
    /\ callerPc[c] = "idle"
    /\ rtsMapMu = "free"
    /\ rtsMapMu' = c
    /\ callerPc' = [callerPc EXCEPT ![c] = "RemoveTable"]
    /\ callerArg' = [callerArg EXCEPT ![c] = [tableID |-> t, startTs |-> 0]]
    /\ UNCHANGED <<sinkVars, actorVars, confVars, minResolvedTs, tableVars, bgVars, ctxDone, last,
                   published, emptyResp, panicked>>

\* RemoveTable: the body under the lock and the deferred Unlock
\* (delete on a nil map is a no-op)
RemoveTable(c) ==
    /\ Alive
    /\ callerPc[c] = "RemoveTable"
    /\ LET t == callerArg[c].tableID IN
       IF RemoveTableFound(tableIDs, t)
       THEN /\ tableIDs' = RemoveTableIDs(tableIDs, t)
            /\ rtsMap' = MapDelete(rtsMap, t)
       ELSE UNCHANGED <<tableIDs, rtsMap>>
    /\ rtsMapMu' = "free"
    /\ callerPc' = [callerPc EXCEPT ![c] = "idle"]
    /\ callerArg' = [callerArg EXCEPT ![c] = NoArg]
    /\ UNCHANGED <<sinkVars, actorVars, confVars, minResolvedTs, bgVars, ctxDone, last, published, emptyResp,
                   panicked>>

\* ------------------------------------------------- the published minimum
\* GetMinResolvedTs reading under the lock instead of atomically
GetMinResolvedTs_UnderLock ==
    /\ Alive
    /\ rtsMapMu = "free"
    /\ last' = [op |-> "GetMinResolvedTs", calls |-> <<>>, ret |-> ErrNil,
                val |-> minResolvedTs]
    /\ UNCHANGED <<sinkVars, actorVars, confVars, minResolvedTs, tableVars, rtsMapMu, callerPc, callerArg,
                   bgVars, ctxDone, published, emptyResp, panicked>>

\* GetMinResolvedTs: atomic.LoadUint64(&m.minResolvedTs); takes no lock
GetMinResolvedTs ==
    /\ Alive
    /\ last' = [op |-> "GetMinResolvedTs", calls |-> <<>>, ret |-> ErrNil,
                val |-> minResolvedTs]
    /\ UNCHANGED <<sinkVars, actorVars, confVars, minResolvedTs, tableVars, rtsMapMu, callerPc, callerArg,
                   bgVars, ctxDone, published, emptyResp, panicked>>

\* ------------------------------------------------------ the redo writer
\* The errors a writer call can return.  The blackhole writer accepts
\* everything and returns success; the log writer can fail on I/O or on a
\* cancelled context.
WriterErrs(w) ==
    IF w = "blackhole" THEN {} ELSE {ErrWriterIO, ErrCanceled}

\* what a writer call can return: success or one of its errors
WriterRets(w) == {ErrNil} \cup WriterErrs(w)

\* The maps GetCurrentResolvedTs can return: a resolved ts for any set of tables
RtsResponses == UNION {[d -> Ts] : d \in SUBSET TableIDs}

\* one call of a writer method, with what it returned
WriterCall(fn, t, ts, e) == [fn |-> fn, tableID |-> t, ts |-> ts, ret |-> e]

\* the value a forwarding operation leaves behind when it returns
Returned(op, calls, e) == [op |-> op, calls |-> calls, ret |-> e, val |-> 0]

\* the frame of the operations that only forward to the writer
ForwardFrame ==
    UNCHANGED <<sinkVars, actorVars, confVars, minResolvedTs, tableVars, rtsMapMu, callerPc, callerArg,
                bgVars, ctxDone, published, emptyResp>>

\* EmitRowChangedEvents: the rows are converted and handed to WriteLog, whose
\* error is returned.  m.writer is the nil interface on a disabled manager:
\* the call panics.
EmitRowChangedEvents(t, e) ==
    /\ Alive
    /\ IF writer = "nil"
       THEN panicked' = TRUE /\ UNCHANGED last
       ELSE /\ last' = Returned("EmitRowChangedEvents",
                                <<WriterCall("WriteLog", t, 0, e)>>, e)
            /\ UNCHANGED panicked
    /\ ForwardFrame

\* FlushLog: return m.writer.FlushLog(ctx, tableID, resolvedTs)
FlushLog(t, ts, e) ==
    /\ Alive
    /\ IF writer = "nil"
       THEN panicked' = TRUE /\ UNCHANGED last
       ELSE /\ last' = Returned("FlushLog", <<WriterCall("FlushLog", t, ts, e)>>, e)
            /\ UNCHANGED panicked
    /\ ForwardFrame

\* EmitDDLEvent: return m.writer.SendDDL(ctx, DDLToRedo(ddl))
EmitDDLEvent(e) ==
    /\ Alive
    /\ IF writer = "nil"
       THEN panicked' = TRUE /\ UNCHANGED last
       ELSE /\ last' = Returned("EmitDDLEvent", <<WriterCall("SendDDL", 0, 0, e)>>, e)
            /\ UNCHANGED panicked
    /\ ForwardFrame

\* FlushResolvedAndCheckpointTs without the early return after EmitResolvedTs
FlushResolvedAndCheckpointTsResult_NoEarlyReturn(resolvedTs, checkpointTs, e1, e2) ==
    [op |-> "FlushResolvedAndCheckpointTs",
     calls |-> <<[fn |-> "EmitResolvedTs", tableID |-> 0, ts |-> resolvedTs, ret |-> e1],
                 [fn |-> "EmitCheckpointTs", tableID |-> 0, ts |-> checkpointTs,
                  ret |-> e2]>>,
     ret |-> e2, val |-> 0]

\* the writer calls FlushResolvedAndCheckpointTs makes and the error it
\* returns, when EmitResolvedTs returns e1 and EmitCheckpointTs would return e2
FlushResolvedAndCheckpointTsResult(resolvedTs, checkpointTs, e1, e2) ==
    IF e1 # ErrNil
    THEN Returned("FlushResolvedAndCheckpointTs",
                  <<WriterCall("EmitResolvedTs", 0, resolvedTs, e1)>>, e1)
    ELSE Returned("FlushResolvedAndCheckpointTs",
                  <<WriterCall("EmitResolvedTs", 0, resolvedTs, e1),
                    WriterCall("EmitCheckpointTs", 0, checkpointTs, e2)>>, e2)

FlushResolvedAndCheckpointTs(resolvedTs, checkpointTs, e1, e2) ==
    /\ Alive
    /\ IF writer = "nil"
       THEN panicked' = TRUE /\ UNCHANGED last
       ELSE /\ last' = FlushResolvedAndCheckpointTsResult(resolvedTs, checkpointTs,
                                                          e1, e2)
            /\ UNCHANGED panicked
    /\ ForwardFrame

\* ------------------------------------------------------ background loop
\* the loop of updateTableResolvedTs over the writer's map: the minimum,
\* starting from math.MaxUint64
RECURSIVE MinRts(_, _, _)
MinRts(resp, keys, acc) ==
    IF keys = {}
    THEN acc
    ELSE LET k == CHOOSE x \in keys : TRUE IN
         MinRts(resp, keys \ {k}, IF resp[k] < acc THEN resp[k] ELSE acc)

\* the loop of updateTableResolvedTs over the writer's map: m.rtsMap[tableID] = rts
RECURSIVE StoreRts(_, _, _)
StoreRts(m, resp, keys) ==
    IF keys = {}
    THEN m
    ELSE LET k == CHOOSE x \in keys : TRUE IN
         StoreRts(MapSet(m, k, resp[k]), resp, keys \ {k})

\* run: case <-ticker.C, the loop calls updateTableResolvedTs
Tick ==
    /\ Alive
    /\ bgPc = "select"
    /\ bgPc' = "Lock"
    /\ UNCHANGED <<sinkVars, actorVars, confVars, minResolvedTs, tableVars, rtsMapMu, callerPc, callerArg,
                   bgErr, errCh, wReq, ctxDone, last, published, emptyResp, panicked>>

\* run: case <-ctx.Done(), return
CtxDone ==
    /\ Alive
    /\ bgPc = "select"
    /\ ctxDone
    /\ bgPc' = "done"
    /\ UNCHANGED <<sinkVars, actorVars, confVars, minResolvedTs, tableVars, rtsMapMu, callerPc, callerArg,
                   bgErr, errCh, wReq, ctxDone, last, published, emptyResp, panicked>>

\* updateTableResolvedTs without taking the lock
UpdateLock_NoLock ==
    /\ Alive
    /\ bgPc = "Lock"
    /\ rtsMapMu' = "run"
    /\ wReq' = tableIDs
    /\ bgPc' = "GetCurrentResolvedTs"
    /\ UNCHANGED <<sinkVars, actorVars, confVars, minResolvedTs, tableVars, callerPc, callerArg,
                   bgErr, errCh, ctxDone, last, published, emptyResp, panicked>>

\* updateTableResolvedTs: m.rtsMapMu.Lock(), then the writer is called
UpdateLock ==
    /\ Alive
    /\ bgPc = "Lock"
    /\ rtsMapMu = "free"
    /\ rtsMapMu' = "run"
    /\ wReq' = tableIDs
    /\ bgPc' = "GetCurrentResolvedTs"
    /\ UNCHANGED <<sinkVars, actorVars, confVars, minResolvedTs, tableVars, callerPc, callerArg,
                   bgErr, errCh, ctxDone, last, published, emptyResp, panicked>>

\* updateTableResolvedTs starting its minimum from 0
UpdateOk_MinFromZero(resp) ==
    /\ Alive
    /\ bgPc = "GetCurrentResolvedTs"
    /\ rtsMap' = StoreRts(rtsMap, resp, DOMAIN resp)
    /\ minResolvedTs' = MinRts(resp, DOMAIN resp, 0)
    /\ published' = TRUE
    /\ emptyResp' = (DOMAIN resp = {})
    /\ rtsMapMu' = "free"
    /\ wReq' = <<>>
    /\ bgPc' = "select"
    /\ UNCHANGED <<sinkVars, actorVars, confVars, tableIDs, callerPc, callerArg, bgErr, errCh, ctxDone,
                   last, panicked>>

\* updateTableResolvedTs: the writer returned a map; it is stored, the
\* minimum published, the lock released; run goes back to its select
UpdateOk(resp) ==
    /\ Alive
    /\ bgPc = "GetCurrentResolvedTs"
    /\ rtsMap' = StoreRts(rtsMap, resp, DOMAIN resp)
    /\ minResolvedTs' = MinRts(resp, DOMAIN resp, MaxUint64)
    /\ published' = TRUE
    /\ emptyResp' = (DOMAIN resp = {})
    /\ rtsMapMu' = "free"
    /\ wReq' = <<>>
    /\ bgPc' = "select"
    /\ UNCHANGED <<sinkVars, actorVars, confVars, tableIDs, callerPc, callerArg, bgErr, errCh, ctxDone,
                   last, panicked>>

\* updateTableResolvedTs storing the initial minimum before looking at err
UpdateFail_StoresFirst(e) ==
    /\ Alive
    /\ bgPc = "GetCurrentResolvedTs"
    /\ bgErr' = e
    /\ minResolvedTs' = MaxUint64
    /\ published' = TRUE
    /\ emptyResp' = emptyResp
    /\ rtsMapMu' = "free"
    /\ wReq' = <<>>
    /\ bgPc' = "send"
    /\ UNCHANGED <<sinkVars, actorVars, confVars, tableVars, callerPc, callerArg, errCh, ctxDone, last,
                   panicked>>

\* updateTableResolvedTs: the writer returned an error; the lock is released
\* and run is about to send the error
UpdateFail(e) ==
    /\ Alive
    /\ bgPc = "GetCurrentResolvedTs"
    /\ bgErr' = e
    /\ rtsMapMu' = "free"
    /\ wReq' = <<>>
    /\ bgPc' = "send"
    /\ UNCHANGED <<sinkVars, actorVars, confVars, minResolvedTs, tableVars, callerPc, callerArg, errCh,
                   ctxDone, last, published, emptyResp, panicked>>

\* run without the return after the send: the loop goes on
SendErr_NoReturn ==
    /\ Alive
    /\ bgPc = "send"
    /\ errCh' = Append(errCh, bgErr)
    /\ bgPc' = "select"
    /\ UNCHANGED <<sinkVars, actorVars, confVars, minResolvedTs, tableVars, rtsMapMu, callerPc, callerArg,
                   bgErr, wReq, ctxDone, last, published, emptyResp, panicked>>

\* run: errCh <- err completes (a receiver took the error), return
SendErr ==
    /\ Alive
    /\ bgPc = "send"
    /\ errCh' = Append(errCh, bgErr)
    /\ bgPc' = "done"
    /\ UNCHANGED <<sinkVars, actorVars, confVars, minResolvedTs, tableVars, rtsMapMu, callerPc, callerArg,
                   bgErr, wReq, ctxDone, last, published, emptyResp, panicked>>

\* the context handed to NewManager is cancelled
Cancel ==
    /\ Alive
    /\ ~ctxDone
    /\ ctxDone' = TRUE
    /\ UNCHANGED <<sinkVars, actorVars, confVars, minResolvedTs, tableVars, rtsMapMu, callerPc, callerArg,
                   bgVars, last, published, emptyResp, panicked>>

\* ----------------------------------------------------------- table actor
\* the actor of the test: table 1, startTs 1, no mark table
ActorID == 1
ActorStartTs == 1

\* puller -> sorter -> sink (the cyclic stage needs a mark table)
Stages == <<"puller", "sorter", "sink">>

Reverse(q) == [i \in 1..Len(q) |-> q[Len(q) + 1 - i]]

BarrierMessage(ts) == [type |-> "Barrier", ts |-> ts]
StopMessage == [type |-> "Stop", ts |-> 0]
TickMessage == [type |-> "Tick", ts |-> 0]

Messages ==
    {BarrierMessage(ts) : ts \in 1..MaxBarrierTs} \cup {StopMessage, TickMessage}

\* NewTableActor: builds the stages and registers the actor in the router
NewTableActor ==
    /\ ~spawned
    /\ spawned' = TRUE
    /\ router' = router \cup {ActorID}
    /\ mailbox' = <<>>
    /\ stopped' = FALSE
    /\ barrierTs' = ActorStartTs
    /\ closed' = <<>>
    /\ UNCHANGED <<sinkVars, redoVars, sendResult>>

\* what Router.Send(id, msg) returns
SendResultOf(id, box, isStopped, reg) ==
    IF id \notin reg THEN "NoSuchActor"
    ELSE IF isStopped THEN "Stopped"
    ELSE IF Len(box) >= MailboxCap THEN "MailboxFull"
    ELSE "Delivered"

\* Router.Send: the message is queued only if it is delivered
Send(msg) ==
    /\ sendResult' = SendResultOf(ActorID, mailbox, stopped, router)
    /\ mailbox' = IF sendResult' = "Delivered" THEN Append(mailbox, msg) ELSE mailbox
    /\ UNCHANGED <<sinkVars, redoVars, spawned, router, stopped, barrierTs, closed>>

\* HandleMessage with a stop that leaves the actor registered
HandleMessage_StopKeepsRouter(a, msg) ==
    IF msg.type = "Barrier"
    THEN [a EXCEPT !.barrierTs = IF msg.ts < a.barrierTs THEN a.barrierTs ELSE msg.ts]
    ELSE IF msg.type = "Stop"
         THEN [a EXCEPT !.stopped = TRUE, !.closed = Reverse(Stages)]
         ELSE a

\* the actor state after one message: a barrier below the current one is
\* ignored; a stop closes the stages in reverse order and leaves the router
HandleMessage(a, msg) ==
    IF msg.type = "Barrier"
    THEN [a EXCEPT !.barrierTs = IF msg.ts < a.barrierTs THEN a.barrierTs ELSE msg.ts]
    ELSE IF msg.type = "Stop"
         THEN [a EXCEPT !.stopped = TRUE, !.closed = Reverse(Stages),
                        !.router = a.router \ {ActorID}]
         ELSE a

\* one poll: the pending messages are handled in order, up to a stop
RECURSIVE HandleAll(_)
HandleAll(a) ==
    IF a.stopped \/ a.mailbox = <<>>
    THEN a
    ELSE HandleAll(HandleMessage([a EXCEPT !.mailbox = Tail(a.mailbox)],
                                 Head(a.mailbox)))

\* the actor system polls the actor
Poll ==
    /\ ActorID \in router
    /\ ~stopped
    /\ mailbox # <<>>
    /\ LET a == HandleAll([stopped |-> stopped, barrierTs |-> barrierTs,
                           closed |-> closed, router |-> router,
                           mailbox |-> mailbox])
       IN /\ stopped' = a.stopped
          /\ barrierTs' = a.barrierTs
          /\ closed' = a.closed
          /\ router' = a.router
          /\ mailbox' = a.mailbox
    /\ UNCHANGED <<sinkVars, redoVars, spawned, sendResult>>

\* ----------------------------------------------- sink parameters: steps
\* dst = src.Clone()
Clone(dst, src) ==
    /\ dst # "defaultParams"
    /\ ptr[src] # 0
    /\ Len(heap) < MaxObjects
    /\ LET r == CloneOf(heap, ptr[src])
       IN /\ heap' = r.objs
          /\ ptr' = [ptr EXCEPT ![dst] = r.addr]
    /\ mut' = [mut EXCEPT ![dst] = mut[src]]
    /\ UNCHANGED <<redoVars, actorVars, sinkURI, parsed, dsn>>

\* v.f = x, through a variable that holds a clone
Mutate(v, f, x) ==
    /\ v # "defaultParams"
    /\ ptr[v] # 0
    /\ heap' = [heap EXCEPT ![ptr[v]][f] = x]
    /\ mut' = [mut EXCEPT ![v] = mut[v] \cup {f}]
    /\ UNCHANGED <<redoVars, actorVars, ptr, sinkURI, parsed, dsn>>

\* params, err := parseSinkURIToParams(ctx, u, o); a sink is built from one
\* URI, which is parsed once
ParseSinkURIToParams ==
    /\ parsed.err = "unset"
    /\ \E u \in SinkURIs, o \in SinkOpts :
          /\ sinkURI' = u
          /\ parsed' = ParseSinkURIToParamsResult(u, o)
    /\ dsn' = NoDSNYet
    /\ UNCHANGED <<redoVars, actorVars, heap, ptr, mut>>

\* dsnStr, err := generateDSNByParams(ctx, dsn, params, db)
GenerateDSNByParams(probe) ==
    /\ parsed.err = ErrNil
    /\ dsn.err = "unset"
    /\ dsn' = GenerateDSNByParamsResult(sinkURI, parsed.params, probe)
    /\ UNCHANGED <<redoVars, actorVars, heap, ptr, mut, sinkURI, parsed>>

\* ------------------------------------------------------- specifications
NextTables ==
    \/ \E c \in Callers, t \in TableIDs, s \in Ts : AddTableLock(c, t, s)
    \/ \E c \in Callers : AddTable(c)
    \/ \E c \in Callers, t \in TableIDs : RemoveTableLock(c, t)
    \/ \E c \in Callers : RemoveTable(c)

\* the table registry alone, on every manager NewManager can return
SpecTables == Init /\ [][NextTables]_vars

\* the loop, the reader of the minimum and one calling goroutine (the lock
\* makes the callers interchangeable; SpecConc has them all)
NextBg ==
    \/ \E t \in TableIDs, s \in Ts : AddTableLock("c1", t, s)
    \/ AddTable("c1")
    \/ \E t \in TableIDs : RemoveTableLock("c1", t)
    \/ RemoveTable("c1")
    \/ GetMinResolvedTs
    \/ Tick
    \/ CtxDone
    \/ UpdateLock
    \/ \E resp \in RtsResponses : UpdateOk(resp)
    \/ \E e \in WriterErrs(writer) : UpdateFail(e)
    \/ SendErr
    \/ Cancel

\* a manager of level eventual with its background loop, on the blackhole
\* writer or on the log writer (local storage; s3 builds the same manager)
InitBg ==
    /\ Init
    /\ cfg.Level = consistentLevelEventual
    /\ cfg.Storage \in {consistentStorageLocal, consistentStorageBlackhole}
    /\ opts.EnableBgRunner

SpecBg == InitBg /\ [][NextBg]_vars

\* the loop against every calling goroutine
NextConc ==
    \/ \E c \in Callers, t \in TableIDs, s \in Ts : AddTableLock(c, t, s)
    \/ \E c \in Callers : AddTable(c)
    \/ \E c \in Callers, t \in TableIDs : RemoveTableLock(c, t)
    \/ \E c \in Callers : RemoveTable(c)
    \/ Tick
    \/ CtxDone
    \/ UpdateLock
    \/ \E resp \in RtsResponses : UpdateOk(resp)
    \/ \E e \in WriterErrs(writer) : UpdateFail(e)
    \/ SendErr
    \/ Cancel

SpecConc == InitBg /\ [][NextConc]_vars

NextWriter ==
    \/ \E t \in TableIDs, e \in WriterRets(writer) : EmitRowChangedEvents(t, e)
    \/ \E t \in TableIDs, ts \in Ts, e \in WriterRets(writer) : FlushLog(t, ts, e)
    \/ \E e \in WriterRets(writer) : EmitDDLEvent(e)
    \/ \E r \in Ts, c \in Ts, e1 \in WriterRets(writer), e2 \in WriterRets(writer) :
          FlushResolvedAndCheckpointTs(r, c, e1, e2)
    \/ GetMinResolvedTs

\* the operations that forward to the writer, on every manager NewManager
\* can return
SpecWriter == Init /\ [][NextWriter]_vars

\* every operation of the manager
Next ==
    \/ \E c \in Callers, t \in TableIDs, s \in Ts : AddTableLock(c, t, s)
    \/ \E c \in Callers : AddTable(c)
    \/ \E c \in Callers, t \in TableIDs : RemoveTableLock(c, t)
    \/ \E c \in Callers : RemoveTable(c)
    \/ GetMinResolvedTs
    \/ \E t \in TableIDs, e \in WriterRets(writer) : EmitRowChangedEvents(t, e)
    \/ \E t \in TableIDs, ts \in Ts, e \in WriterRets(writer) : FlushLog(t, ts, e)
    \/ \E e \in WriterRets(writer) : EmitDDLEvent(e)
    \/ \E r \in Ts, c \in Ts, e1 \in WriterRets(writer), e2 \in WriterRets(writer) :
          FlushResolvedAndCheckpointTs(r, c, e1, e2)
    \/ Tick
    \/ CtxDone
    \/ UpdateLock
    \/ \E resp \in RtsResponses : UpdateOk(resp)
    \/ \E e \in WriterErrs(writer) : UpdateFail(e)
    \/ SendErr
    \/ Cancel
    \/ NewTableActor
    \/ \E msg \in Messages : Send(msg)
    \/ Poll
    \/ \E dst \in ParamVars, src \in ParamVars : Clone(dst, src)
    \/ \E v \in ParamVars, f \in DOMAIN FieldValues : \E x \in FieldValues[f] : Mutate(v, f, x)
    \/ ParseSinkURIToParams
    \/ \E probe \in Probes : GenerateDSNByParams(probe)

Spec == Init /\ [][Next]_vars

\* the table actor alone (no redo manager is configured)
InitActor == Init /\ cfg.isNil /\ ~opts.EnableBgRunner

NextActor ==
    \/ NewTableActor
    \/ \E msg \in Messages : Send(msg)
    \/ Poll

SpecActor == InitActor /\ [][NextActor]_vars

\* the actor system polls an actor that has messages
FairSpecActor == SpecActor /\ WF_vars(Poll)

\* the sink parameters alone: clone and assign
InitSink == Init /\ cfg.isNil /\ ~opts.EnableBgRunner

NextClone ==
    \/ \E dst \in ParamVars, src \in ParamVars : Clone(dst, src)
    \/ \E v \in ParamVars, f \in DOMAIN FieldValues : \E x \in FieldValues[f] : Mutate(v, f, x)

SpecClone == InitSink /\ [][NextClone]_vars

\* the sink parameters alone: parse a URI, render the DSN
NextSink ==
    \/ ParseSinkURIToParams
    \/ \E probe \in Probes : GenerateDSNByParams(probe)

SpecSink == InitSink /\ [][NextSink]_vars

\* The background loop under the scheduling the code can rely on: a caller
\* inside AddTable/RemoveTable leaves it, the mutex is handed to the waiting
\* loop, the writer call returns, and a select with a ready ctx.Done() case
\* takes it.  Nothing makes anybody receive from the error channel, and
\* nothing makes the ticker fire or the context be cancelled.
FairSpec ==
    /\ InitBg
    /\ [][NextBg]_vars
    /\ WF_vars(AddTable("c1"))
    /\ WF_vars(RemoveTable("c1"))
    /\ SF_vars(UpdateLock)
    /\ WF_vars((\E resp \in RtsResponses : UpdateOk(resp))
               \/ (\E e \in WriterErrs(writer) : UpdateFail(e)))
    /\ SF_vars(CtxDone)

\* ================================================================ claims
Range(f) == {f[x] : x \in DOMAIN f}

StrictlyAscending(s) == \A i \in 1..(Len(s) - 1) : s[i] < s[i + 1]

\* the least element of a non-empty set of timestamps
SetMin(S) == CHOOSE x \in S : \A y \in S : x <= y

\* C1: on an enabled manager, in every state that AddTable and RemoveTable
\* calls can reach, tableIDs is strictly ascending and the keys of rtsMap are
\* exactly the elements of tableIDs.
C1_SortedSameKeys ==
    enabled => /\ StrictlyAscending(tableIDs)
               /\ DOMAIN rtsMap = Range(tableIDs)

\* three tables registered, after a removal left room for a middle insert
C1_Witness ==
    /\ enabled
    /\ tableIDs = <<1, 2, 3>>
    /\ rtsMap[1] = 0 /\ rtsMap[2] = 1
    /\ \E c \in Callers : callerPc[c] = "RemoveTable" /\ callerArg[c].tableID = 2

\* C2 (as claimed): the successive values GetMinResolvedTs returns never
\* decrease.
C2_MinNeverDecreases ==
    [][(last.op = "GetMinResolvedTs" /\ last'.op = "GetMinResolvedTs")
          => last'.val >= last.val]_vars

\* C3 (as claimed): when a background update succeeds, the published minimum
\* is the least rtsMap value over the tables in tableIDs.
C3_PublishedIsMinOfTracked ==
    [][(bgPc = "GetCurrentResolvedTs" /\ bgPc' = "select" /\ tableIDs' # <<>>)
          => minResolvedTs' = SetMin({rtsMap'[t] : t \in Range(tableIDs')})]_vars

\* C4 (as claimed): a manager built from a nil config or level normal is
\* disabled, and no public operation on it fails, reaches a writer or changes
\* the manager.
C4_DisabledIsNoOp ==
    /\ (cfg.isNil \/ cfg.Level = consistentLevelNormal)
          => (newErr = ErrNil /\ ~enabled)
    /\ (newErr = ErrNil /\ ~enabled)
          => /\ ~panicked
             /\ tableIDs = <<>>
             /\ rtsMap = <<>>
             /\ minResolvedTs = 0
             /\ last.calls = <<>>

\* C5 (as claimed): NewManager fails, and starts no loop, when the level or
\* the storage is not a valid one; level normal gives a disabled manager
\* whatever the storage.
C5_InvalidConfigFails ==
    /\ (~cfg.isNil /\ cfg.Level = consistentLevelNormal)
          => (newErr = ErrNil /\ ~enabled)
    /\ (~cfg.isNil /\ cfg.Level # consistentLevelNormal
          /\ (~IsValidConsistentLevel(cfg.Level)
              \/ ~IsValidConsistentStorage(cfg.Storage)))
          => (newErr # ErrNil /\ bgPc = "none")

\* C6: FlushResolvedAndCheckpointTs calls EmitResolvedTs(resolvedTs) first; if
\* that fails it is the only call and its error is the result; otherwise
\* EmitCheckpointTs(checkpointTs) is called next and its result is the result.
C6_FlushShortCircuits ==
    last.op = "FlushResolvedAndCheckpointTs" =>
        /\ Len(last.calls) >= 1
        /\ last.calls[1].fn = "EmitResolvedTs"
        /\ IF last.calls[1].ret # ErrNil
           THEN /\ Len(last.calls) = 1
                /\ last.ret = last.calls[1].ret
           ELSE /\ Len(last.calls) = 2
                /\ last.calls[2].fn = "EmitCheckpointTs"
                /\ last.ret = last.calls[2].ret

\* EmitResolvedTs failed: one call, its error returned
C6_Witness ==
    /\ last.op = "FlushResolvedAndCheckpointTs"
    /\ Len(last.calls) = 1
    /\ last.calls[1].ret = ErrWriterIO
    /\ last.ret = ErrWriterIO

\* C7: once the writer has failed a tick, the loop delivers that error, and
\* only it, at most once, and then is over: it never gets back to its select,
\* takes the lock or publishes a minimum again.
C7_ErrorSentOnceThenStop ==
    /\ [](Len(errCh) <= 1)
    /\ []((bgPc = "send") => (bgErr # ErrNil /\ errCh = <<>>))
    /\ []((bgPc = "done" /\ bgErr # ErrNil) => errCh = <<bgErr>>)
    /\ []((bgPc = "done" /\ bgErr = ErrNil) => errCh = <<>>)
    /\ [][(bgPc \in {"send", "done"})
            => /\ bgPc' \in {"send", "done"}
               /\ bgErr' = bgErr
               /\ minResolvedTs' = minResolvedTs
               /\ rtsMapMu' # "run"]_vars

\* the writer failed after a minimum had been published; the error was taken
C7_Witness ==
    /\ bgPc = "done"
    /\ errCh = <<ErrWriterIO>>
    /\ published

\* C8 (as claimed): once the context is cancelled the loop terminates,
\* wherever it is, and a loop that has returned does nothing more.
C8_CancelTerminatesLoop ==
    /\ (ctxDone ~> (bgPc = "done"))
    /\ [][(bgPc = "done") => (bgPc' = "done" /\ minResolvedTs' = minResolvedTs)]_vars

\* C9: GetMinResolvedTs can return in every state, whoever holds the write
\* lock; what it returns is the value of the atomic word, which is 0 until the
\* first store.
C9_GetMinWaitFree ==
    /\ [](Alive => ENABLED GetMinResolvedTs)
    /\ [](~published => minResolvedTs = 0)
    /\ [][(last' # last) => (last'.op = "GetMinResolvedTs"
                              /\ last'.val = minResolvedTs)]_vars

\* the loop holds the lock inside the writer call, after a value was
\* published and read
C9_Witness ==
    /\ rtsMapMu = "run"
    /\ bgPc = "GetCurrentResolvedTs"
    /\ published
    /\ last.op = "GetMinResolvedTs"
    /\ last.val = minResolvedTs
    /\ minResolvedTs = 1

\* C10: on an enabled manager AddTable(t, s) of an unregistered t puts t at
\* its sorted position in tableIDs and sets rtsMap[t] = s, touching no other
\* entry; AddTable(t, s) of a registered t changes neither tableIDs nor rtsMap.
C10_AddTableFrame ==
    [][\A c \in Callers :
       (enabled /\ callerPc[c] = "AddTable" /\ callerPc'[c] = "idle") =>
        LET t == callerArg[c].tableID
            s == callerArg[c].startTs
        IN IF t \in Range(tableIDs)
           THEN tableIDs' = tableIDs /\ rtsMap' = rtsMap
           ELSE /\ \E k \in 1..Len(tableIDs') :
                     /\ tableIDs'[k] = t
                     /\ \A j \in 1..(k - 1) : tableIDs'[j] < t
                     /\ \A j \in (k + 1)..Len(tableIDs') : tableIDs'[j] > t
                     /\ tableIDs = SubSeq(tableIDs', 1, k - 1)
                                     \o SubSeq(tableIDs', k + 1, Len(tableIDs'))
                /\ DOMAIN rtsMap' = (DOMAIN rtsMap) \cup {t}
                /\ rtsMap'[t] = s
                /\ \A x \in (DOMAIN rtsMap) \ {t} : rtsMap'[x] = rtsMap[x]]_vars

\* table 2 was inserted between 1 and 3 with startTs 1, and a second
\* AddTable(2, 0) is about to return
C10_Witness ==
    /\ enabled
    /\ tableIDs = <<1, 2, 3>>
    /\ rtsMap[2] = 1
    /\ \E c \in Callers : /\ callerPc[c] = "AddTable"
                           /\ callerArg[c] = [tableID |-> 2, startTs |-> 0]

\* C11: RemoveTable(t) of a registered t takes exactly t out of tableIDs and
\* rtsMap, keeping the order and the values of the others; RemoveTable(t) of
\* an unregistered t changes neither.
C11_RemoveTableFrame ==
    [][\A c \in Callers :
       (callerPc[c] = "RemoveTable" /\ callerPc'[c] = "idle") =>
        LET t == callerArg[c].tableID
            Keep(x) == x # t
        IN IF t \in Range(tableIDs)
           THEN /\ tableIDs' = SelectSeq(tableIDs, Keep)
                /\ Len(tableIDs') = Len(tableIDs) - 1
                /\ DOMAIN rtsMap' = (DOMAIN rtsMap) \ {t}
                /\ \A x \in DOMAIN rtsMap' : rtsMap'[x] = rtsMap[x]
           ELSE tableIDs' = tableIDs /\ rtsMap' = rtsMap]_vars

\* RemoveTable(2) is about to take the middle one of three tables out
C11_Witness ==
    /\ enabled
    /\ tableIDs = <<1, 2, 3>>
    /\ rtsMap[1] = 0 /\ rtsMap[3] = 1
    /\ \E c \in Callers : /\ callerPc[c] = "RemoveTable"
                           /\ callerArg[c].tableID = 2
                           /\ rtsMapMu = c

\* C17 (as claimed): whatever map the writer returns, a background update
\* leaves tableIDs as it is and the keys of rtsMap equal to its elements.
C17_UpdateKeepsTrackedSet ==
    [][(bgPc = "GetCurrentResolvedTs" /\ bgPc' = "select"
          /\ DOMAIN rtsMap = Range(tableIDs))
          => (tableIDs' = tableIDs /\ DOMAIN rtsMap' = Range(tableIDs'))]_vars

\* C18: a background update whose writer call fails changes neither rtsMap
\* nor tableIDs nor the published minimum, from the moment it holds the lock
\* to its return, and hands the writer's error to the loop.
C18_FailedUpdateCommitsNothing ==
    [][((bgPc = "Lock" /\ bgPc' # "Lock")
          \/ (bgPc = "GetCurrentResolvedTs" /\ bgPc' # "select"))
          => /\ rtsMap' = rtsMap
             /\ tableIDs' = tableIDs
             /\ minResolvedTs' = minResolvedTs
             /\ published' = published
             /\ (bgPc' = "send" => (bgErr' \in WriterErrs(writer)
                                     /\ rtsMapMu' = "free"))]_vars

\* the writer call was cancelled after a minimum of 1 had been published for
\* a registered table
C18_Witness ==
    /\ bgPc = "send"
    /\ bgErr = ErrCanceled
    /\ published
    /\ minResolvedTs = 1
    /\ tableIDs = <<2>>
    /\ rtsMap[2] = 1

\* the goroutines inside a critical section of rtsMapMu
InCritical ==
    {c \in Callers : callerPc[c] # "idle"}
        \cup (IF bgPc = "GetCurrentResolvedTs" THEN {"run"} ELSE {})

\* C19: at most one of AddTable, RemoveTable and the background update is
\* inside its critical section, and it is the holder of the lock; tableIDs
\* and rtsMap change only in the step that ends a critical section, so the
\* operations take effect one after the other; the tableIDs an update hands
\* to the writer are still the tableIDs when it stores the answer.
C19_MutuallyExclusive ==
    /\ [](Cardinality(InCritical) <= 1)
    /\ [](InCritical = {rtsMapMu} \ {"free"})
    /\ [][(tableIDs' # tableIDs \/ rtsMap' # rtsMap)
            => (rtsMapMu # "free" /\ rtsMapMu' = "free"
                /\ InCritical = {rtsMapMu})]_vars
    /\ []((bgPc = "GetCurrentResolvedTs") => wReq = tableIDs)

\* the loop waits for the lock that a caller holds inside RemoveTable while
\* the other caller is outside
C19_Witness ==
    /\ bgPc = "Lock"
    /\ rtsMapMu = "c2"
    /\ callerPc["c2"] = "RemoveTable"
    /\ callerPc["c1"] = "idle"
    /\ tableIDs = <<1, 3>>

\* C20: the published minimum changes only in the step in which a
\* background update succeeds; no step of AddTable or RemoveTable changes it,
\* so GetMinResolvedTs returns the same before and after them.
C20_OnlyUpdatePublishes ==
    /\ [][(minResolvedTs' # minResolvedTs)
            => (bgPc = "GetCurrentResolvedTs" /\ bgPc' = "select")]_vars
    /\ [][(callerPc' # callerPc) => (minResolvedTs' = minResolvedTs
                                      /\ published' = published)]_vars

\* AddTable with startTs 0 is inside while 1 is published and was read
C20_Witness ==
    /\ published
    /\ minResolvedTs = 1
    /\ last.op = "GetMinResolvedTs" /\ last.val = 1
    /\ callerPc["c1"] = "AddTable"
    /\ callerArg["c1"].startTs = 0
    /\ callerArg["c1"].tableID \notin Range(tableIDs)

\* C12: once Stop is in the mailbox of the spawned actor (after Barrier(2) in
\* the test) the actor gets to stopped = true; from then on stopped stays
\* true, no message is taken from the mailbox or handled, the actor is out of
\* the router and every Send to its id is rejected.
C12_StopIsFinal ==
    /\ ((spawned /\ \E i \in DOMAIN mailbox : mailbox[i] = StopMessage) ~> stopped)
    /\ [](stopped => ActorID \notin router)
    /\ [][stopped => /\ stopped'
                     /\ mailbox' = mailbox
                     /\ barrierTs' = barrierTs
                     /\ closed' = closed
                     /\ router' = router
                     /\ sendResult' \in {"NoSuchActor", "Stopped"}]_vars

\* Barrier(2) then Stop were handled, and a later Send was rejected
C12_Witness ==
    /\ stopped
    /\ barrierTs = 2
    /\ mailbox = <<>>
    /\ closed = <<"sink", "sorter", "puller">>
    /\ sendResult = "NoSuchActor"
\* ------------------------------------------------------------------ C13
\* C13: clones are isolated.  The default instance always holds the default
\* values; through every variable, each field that was not assigned through
\* it (or through the variable it was cloned from, before the clone) holds
\* the default value; and no step changes, in the object a variable points
\* at, a field that was never assigned through that variable.
C13_CloneIsolation ==
    /\ [](/\ heap[ptr["defaultParams"]] = DefaultParams
          /\ DefaultParams.workerCount = 16 /\ DefaultParams.maxTxnRow = 256
          /\ DefaultParams.tidbTxnMode = "optimistic" /\ DefaultParams.batchReplaceEnabled
          /\ DefaultParams.batchReplaceSize = 20 /\ DefaultParams.readTimeout = "2m"
          /\ DefaultParams.writeTimeout = "2m" /\ DefaultParams.dialTimeout = "2s"
          /\ ~DefaultParams.safeMode
          /\ \A v \in ParamVars : ptr[v] # 0 =>
                \A f \in DOMAIN DefaultParams \ mut[v] :
                    heap[ptr[v]][f] = DefaultParams[f])
    /\ [][\A v \in ParamVars : (ptr'[v] = ptr[v] /\ ptr[v] # 0) =>
              \A f \in DOMAIN DefaultParams \ mut'[v] :
                  heap'[ptr[v]][f] = heap[ptr[v]][f]]_vars

\* p2 = p1.Clone() was assigned its three fields and p1 still is the default
C13_Witness ==
    /\ ptr["param1"] # 0 /\ ptr["param2"] # 0 /\ ptr["param1"] # ptr["param2"]
    /\ mut["param1"] = {}
    /\ mut["param2"] = {"changefeedID", "batchReplaceEnabled", "maxTxnRow"}
    /\ heap[ptr["param1"]] = DefaultParams
    /\ heap[ptr["param2"]] =
          [DefaultParams EXCEPT !.changefeedID = "123", !.batchReplaceEnabled = FALSE,
                                !.maxTxnRow = 1]

\* ------------------------------------------------------------------ C14
\* C14: a DSN rendered from the parameters parsed from a valid URI holds
\* tidb_txn_mode, readTimeout, writeTimeout and
\* allow_auto_random_explicit_insert=1; readTimeout and writeTimeout carry the
\* URI's read-timeout and write-timeout when given, 2m otherwise, and
\* tidb_txn_mode the URI's mode when given, optimistic otherwise.  Rendering
\* fails only on a connection error of the probe.
C14_RequiredDSNKeys ==
    /\ dsn.err \in {"unset", ErrNil, ErrConnDone}
    /\ dsn.err # "unset" => parsed.err = ErrNil
    /\ dsn.err = ErrNil =>
          LET q == sinkURI.query
          IN /\ {"tidb_txn_mode", "readTimeout", "writeTimeout",
                 "allow_auto_random_explicit_insert"} \subseteq DOMAIN dsn.kv
             /\ dsn.kv["allow_auto_random_explicit_insert"] = "1"
             /\ dsn.kv["readTimeout"] =
                   IF "read-timeout" \in DOMAIN q THEN q["read-timeout"] ELSE "2m"
             /\ dsn.kv["writeTimeout"] =
                   IF "write-timeout" \in DOMAIN q THEN q["write-timeout"] ELSE "2m"
             /\ dsn.kv["tidb_txn_mode"] =
                   IF "tidb-txn-mode" \in DOMAIN q THEN q["tidb-txn-mode"] ELSE "optimistic"

\* a DSN rendered after a probe, read-timeout given and write-timeout not
C14_Witness ==
    /\ dsn.err = ErrNil
    /\ DOMAIN sinkURI.query = {"read-timeout", "tidb-txn-mode"}
    /\ sinkURI.query["tidb-txn-mode"] = "pessimistic"
    /\ dsn.kv["readTimeout"] = "4m" /\ dsn.kv["writeTimeout"] = "2m"
    /\ dsn.kv["tidb_txn_mode"] = "pessimistic"

\* ------------------------------------------------------------------ C15
\* C15: the time zone.  Parsed from a URI with an empty time-zone the
\* parameter is empty; without time-zone it is "UTC" in double quotes; with a
\* non-empty time-zone Z it is Z in double quotes.  A rendered DSN has a
\* time_zone key exactly if the parameter is not empty, and for the default
\* it is time_zone=%22UTC%22.
C15_TimezoneMapping ==
    /\ parsed.err = ErrNil =>
          LET q == sinkURI.query
              tz == parsed.params.timezone
          IN /\ "time-zone" \notin DOMAIN q => tz = <<"\"", "UTC", "\"">>
             /\ "time-zone" \in DOMAIN q =>
                   /\ q["time-zone"] = "" => tz = <<>>
                   /\ q["time-zone"] # "" =>
                         /\ Len(tz) = Len(Tokens[q["time-zone"]]) + 2
                         /\ tz[1] = "\"" /\ tz[Len(tz)] = "\""
                         /\ SubSeq(tz, 2, Len(tz) - 1) = Tokens[q["time-zone"]]
                   /\ q["time-zone"] = "Asia/Shanghai" =>
                         tz = <<"\"", "Asia", "/", "Shanghai", "\"">>
    /\ dsn.err = ErrNil =>
          /\ "time_zone" \in DOMAIN dsn.kv <=> parsed.params.timezone # <<>>
          /\ "time-zone" \notin DOMAIN sinkURI.query =>
                dsn.kv["time_zone"] = <<"%22", "UTC", "%22">>
          /\ ("time-zone" \in DOMAIN sinkURI.query /\ sinkURI.query["time-zone"] = "") =>
                "time_zone" \notin DOMAIN dsn.kv

\* a DSN rendered from a URI that gives an empty time zone
C15_Witness ==
    /\ dsn.err = ErrNil
    /\ "time-zone" \in DOMAIN sinkURI.query
    /\ sinkURI.query["time-zone"] = ""
    /\ parsed.params.timezone = <<>>
    /\ "time_zone" \notin DOMAIN dsn.kv

\* ------------------------------------------------------------------ C16
\* the inputs the parse must refuse
BadSinkURI(u) ==
    \/ u.isNil
    \/ u.scheme \notin {"mysql", "tidb"}
    \/ \E k \in {"worker-count", "max-txn-row", "batch-replace-size"} \cap DOMAIN u.query :
          u.query[k] = "not-number"
    \/ \E k \in {"batch-replace-enable", "safe-mode"} \cap DOMAIN u.query :
          u.query[k] = "not-bool"
    \/ \E k \in SslKeys : k \in DOMAIN u.query /\ ~(SslKeys \subseteq DOMAIN u.query)

\* C16: parseSinkURIToParams of a nil URI, of a scheme other than mysql and
\* tidb, of a non-numeric worker-count, max-txn-row or batch-replace-size, of
\* a non-boolean batch-replace-enable or safe-mode, or of a part of the
\* ssl-ca/ssl-cert/ssl-key triple returns an error and the nil record.
C16_BadURIRejected ==
    (parsed.err # "unset" /\ BadSinkURI(sinkURI)) =>
        /\ parsed.err # ErrNil
        /\ parsed.params = NilParams
        /\ dsn.err = "unset"

\* a URI whose only fault is a lone ssl-ca was parsed
C16_Witness ==
    /\ parsed.err = ErrInvalidConfig
    /\ ~sinkURI.isNil /\ sinkURI.scheme = "mysql"
    /\ DOMAIN sinkURI.query = {"ssl-ca", "worker-count"}
    /\ sinkURI.query["worker-count"] = "64"

\* ------------------------------------------------------------------ C21
\* C21: a successful background update that got an empty map from the writer
\* publishes math.MaxUint64; GetMinResolvedTs returns that value as long as
\* no later successful update got a non-empty map, and only such an update
\* replaces it, by a timestamp of one of the tables the writer reported.
C21_EmptyMapPublishesMax ==
    /\ [](emptyResp => (published /\ minResolvedTs = MaxUint64))
    /\ []((published /\ ~emptyResp) => minResolvedTs \in Ts)
    /\ [][(emptyResp /\ last' # last) => last'.val = MaxUint64]_vars
    /\ [][(emptyResp /\ minResolvedTs' # MaxUint64)
            => (/\ bgPc = "GetCurrentResolvedTs" /\ bgPc' = "select" /\ ~emptyResp'
                /\ minResolvedTs' \in Range(rtsMap'))]_vars
    /\ [][(bgPc = "GetCurrentResolvedTs" /\ bgPc' = "select" /\ rtsMap' = <<>>)
            => (emptyResp' /\ minResolvedTs' = MaxUint64)]_vars

\* no table is registered, the update got an empty map and the maximum was read
C21_Witness ==
    /\ emptyResp
    /\ tableIDs = <<>> /\ rtsMap = <<>>
    /\ bgPc = "select"
    /\ last.op = "GetMinResolvedTs"
    /\ last.val = MaxUint64
====
